---- MODULE Spec2Model ----
(***************************************************************************)
(* ContainerPrinter: the type classification (Traits), the delimiter table *)
(* (Decorator), the default formatter, the tuple handler, the three        *)
(* ToStream overloads and the container operator<<, as a state machine     *)
(* whose steps are the single writes a print statement makes on a stream.  *)
(*                                                                         *)
(* A C++ type is a record [tmpl, elem, base]: the class template or kind   *)
(* it instantiates, the element type of a raw array, and the base template *)
(* of a class that derives from a standard type.  A value is a record      *)
(* [type, elems, n, s]: its type, its elements in iteration (or index)     *)
(* order, the number of an integral leaf and the characters of a text      *)
(* leaf.                                                                   *)
(***************************************************************************)
EXTENDS Integers, Sequences, FiniteSets, TLC

(***************************************************************************)
(* Types                                                                   *)
(***************************************************************************)
\* the character scalar kinds of the language
CharKinds == {"char", "wchar_t", "char8_t", "char16_t", "char32_t"}

\* class templates of the standard library that declare begin() and end()
WithCursors ==
    {"array", "vector", "deque", "forward_list", "list",
     "set", "multiset", "map", "multimap",
     "unordered_set", "unordered_multiset", "unordered_map", "unordered_multimap",
     "basic_string", "basic_string_view"}

\* the container adapters: empty() and value_type, but no begin(), end(), iterator
Adapters == {"stack", "queue", "priority_queue"}

StdTemplates == WithCursors \cup Adapters \cup {"pair", "tuple"}

Ty(tmpl, elem, base) == [tmpl |-> tmpl, elem |-> elem, base |-> base]

Std(tmpl) == Ty(tmpl, "none", "none")

Scalar(name) == Ty("scalar", name, "none")

CArray(elem) == Ty("carray", elem, "none")

Derived(base) == Ty("derived", "none", base)

\* std::basic_string<kind> and std::basic_string_view<kind>
Str(tmpl, kind) == Ty(tmpl, kind, "none")

\* members looked up in the named class alone, without its bases
MemberClass_without_bases(t) == t.tmpl

\* the class whose members the type has: a derived class inherits its base's
MemberClass(t) == IF t.tmpl = "derived" THEN t.base ELSE t.tmpl

has_begin(t) == MemberClass(t) \in WithCursors

has_end(t) == MemberClass(t) \in WithCursors

has_empty(t) == MemberClass(t) \in WithCursors \cup Adapters

has_value_type(t) == MemberClass(t) \in WithCursors \cup Adapters

has_iterator(t) == MemberClass(t) \in WithCursors

(***************************************************************************)
(* Traits                                                                  *)
(***************************************************************************)
\* the partial specialization on the five members (void_t detection)
detected_members(t) ==
    /\ has_begin(t)
    /\ has_end(t)
    /\ has_empty(t)
    /\ has_value_type(t)
    /\ has_iterator(t)

\* the trait without the specialization for std::tuple
is_printable_as_container_without_tuple(t) ==
    CASE t.tmpl = "pair" -> TRUE
      [] t.tmpl = "carray" /\ t.elem = "char" -> FALSE
      [] t.tmpl = "carray" /\ t.elem = "wchar_t" -> FALSE
      [] t.tmpl = "carray" -> TRUE
      [] t.tmpl = "basic_string" -> FALSE
      [] OTHER -> detected_members(t)

\* is_printable_as_container<Type>::value: the specializations on an exact
\* type (pair, tuple, arrays, basic_string) are more specialized than the
\* member detection, and the primary template is false
is_printable_as_container(t) ==
    CASE t.tmpl = "pair" -> TRUE
      [] t.tmpl = "tuple" -> TRUE
      [] t.tmpl = "carray" /\ t.elem = "char" -> FALSE
      [] t.tmpl = "carray" /\ t.elem = "wchar_t" -> FALSE
      [] t.tmpl = "carray" -> TRUE
      [] t.tmpl = "basic_string" -> FALSE
      [] OTHER -> detected_members(t)

is_printable_as_container_v(t) == is_printable_as_container(t)

is_a_pair(t) == t.tmpl = "pair"

is_a_tuple(t) == t.tmpl = "tuple"

\* the tuple trait's complement without its specialization for std::tuple
is_not_a_tuple_unspecialized(t) == TRUE

is_not_a_tuple(t) == ~(t.tmpl = "tuple")

(***************************************************************************)
(* Decorator                                                               *)
(***************************************************************************)
\* wrapper<CharacterType>: the three tokens and the character type they are
\* encoded in
wrapper(ct, prefix, separator, suffix) ==
    [defined |-> TRUE, type |-> ct,
     prefix |-> prefix, separator |-> separator, suffix |-> suffix]

\* the primary template declares `values` and never defines it
undefined_values(ct) ==
    [defined |-> FALSE, type |-> ct, prefix |-> "", separator |-> "", suffix |-> ""]

\* the table without the specializations for std::pair
delimiters_without_pair(t, ct) ==
    CASE ct \notin {"char", "wchar_t"} -> undefined_values(ct)
      [] ct \in {"char", "wchar_t"} /\ t.tmpl \in {"set", "multiset"} -> wrapper(ct, "{", ", ", "}")
      [] ct \in {"char", "wchar_t"} /\ t.tmpl = "tuple" -> wrapper(ct, "<", ", ", ">")
      [] OTHER -> wrapper(ct, "[", ", ", "]")

\* the table without the specializations for std::multiset
delimiters_without_multiset(t, ct) ==
    CASE ct \notin {"char", "wchar_t"} -> undefined_values(ct)
      [] ct \in {"char", "wchar_t"} /\ t.tmpl = "set" -> wrapper(ct, "{", ", ", "}")
      [] ct \in {"char", "wchar_t"} /\ t.tmpl = "pair" -> wrapper(ct, "(", ", ", ")")
      [] ct \in {"char", "wchar_t"} /\ t.tmpl = "tuple" -> wrapper(ct, "<", ", ", ">")
      [] OTHER -> wrapper(ct, "[", ", ", "]")

\* the table with specializations for std::map and std::unordered_set too
delimiters_with_map(t, ct) ==
    CASE ct \notin {"char", "wchar_t"} -> undefined_values(ct)
      [] ct \in {"char", "wchar_t"}
           /\ t.tmpl \in {"set", "multiset", "map", "unordered_set"} -> wrapper(ct, "{", ", ", "}")
      [] ct \in {"char", "wchar_t"} /\ t.tmpl = "pair" -> wrapper(ct, "(", ", ", ")")
      [] ct \in {"char", "wchar_t"} /\ t.tmpl = "tuple" -> wrapper(ct, "<", ", ", ">")
      [] OTHER -> wrapper(ct, "[", ", ", "]")

\* delimiters<ContainerType, CharacterType>::values
delimiters(t, ct) ==
    CASE ct \notin {"char", "wchar_t"} -> undefined_values(ct)
      [] ct \in {"char", "wchar_t"} /\ t.tmpl = "set" -> wrapper(ct, "{", ", ", "}")
      [] ct \in {"char", "wchar_t"} /\ t.tmpl = "multiset" -> wrapper(ct, "{", ", ", "}")
      [] ct \in {"char", "wchar_t"} /\ t.tmpl = "pair" -> wrapper(ct, "(", ", ", ")")
      [] ct \in {"char", "wchar_t"} /\ t.tmpl = "tuple" -> wrapper(ct, "<", ", ", ">")
      [] OTHER -> wrapper(ct, "[", ", ", "]")

(***************************************************************************)
(* Values                                                                  *)
(***************************************************************************)
IntT == Scalar("int")

IntV(n) == [type |-> IntT, elems |-> <<>>, n |-> n, s |-> ""]

\* a character scalar: its code and the character itself
CharV(kind, code, c) == [type |-> Scalar(kind), elems |-> <<>>, n |-> code, s |-> c]

Cont(t, es) == [type |-> t, elems |-> es, n |-> 0, s |-> ""]

\* a text value (character array, string, string view): its characters as
\* elements and its text as the stream's own << writes it
TextV(t, es, txt) == [type |-> t, elems |-> es, n |-> 0, s |-> txt]

\* the terminating null character of a string literal, in caret notation
NUL == "^@"

\* the tab and the delete character
TAB == "\t"

DEL == "^?"

\* the grave accent, which a string of this notation cannot hold
GRAVE == "<grave>"

\* the printable characters of ASCII-7, from the space (32) to the tilde (126)
Printable ==
    <<" ", "!", "\"", "#", "$", "%", "&", "'", "(", ")", "*", "+", ",", "-", ".", "/",
      "0", "1", "2", "3", "4", "5", "6", "7", "8", "9", ":", ";", "<", "=", ">", "?",
      "@", "A", "B", "C", "D", "E", "F", "G", "H", "I", "J", "K", "L", "M", "N", "O",
      "P", "Q", "R", "S", "T", "U", "V", "W", "X", "Y", "Z", "[", "\\", "]", "^", "_",
      GRAVE, "a", "b", "c", "d", "e", "f", "g", "h", "i", "j", "k", "l", "m", "n", "o",
      "p", "q", "r", "s", "t", "u", "v", "w", "x", "y", "z", "{", "|", "}", "~">>

\* the code of a character
Code(c) ==
    CASE c = NUL -> 0
      [] c = TAB -> 9
      [] c = DEL -> 127
      [] OTHER -> 31 + (CHOOSE i \in 1..Len(Printable) : Printable[i] = c)

\* a character of the given kind
Ch(kind, c) == CharV(kind, Code(c), c)

Chars(kind, cs) == [i \in 1..Len(cs) |-> Ch(kind, cs[i])]

RECURSIVE Concat(_)
Concat(cs) == IF cs = <<>> THEN "" ELSE cs[1] \o Concat(Tail(cs))

\* std::basic_string<kind> and std::basic_string_view<kind> of the characters
String(kind, cs) == TextV(Str("basic_string", kind), Chars(kind, cs), Concat(cs))

StringView(kind, cs) == TextV(Str("basic_string_view", kind), Chars(kind, cs), Concat(cs))

Digit(d) ==
    CASE d = 0 -> "0" [] d = 1 -> "1" [] d = 2 -> "2" [] d = 3 -> "3" [] d = 4 -> "4"
      [] d = 5 -> "5" [] d = 6 -> "6" [] d = 7 -> "7" [] d = 8 -> "8" [] d = 9 -> "9"

\* decimal formatting of a non-negative integer by the stream
RECURSIVE IntStr(_)
IntStr(n) == IF n < 10 THEN Digit(n) ELSE IntStr(n \div 10) \o Digit(n % 10)

(***************************************************************************)
(* Streams                                                                 *)
(***************************************************************************)
Streams == {"cout", "wcout"}

\* StreamType::char_type
char_type(sid) == IF sid = "cout" THEN "char" ELSE "wchar_t"

\* what `stream << element` writes for an element the container operator<<
\* does not take: an int in decimal, a char as itself (widened on a wide
\* stream), a wchar_t as itself on a wide stream and as an integer on a
\* narrow one, a char16_t or char32_t as an integer, a text as its characters
Native(v, sid) ==
    CASE v.type = IntT -> IntStr(v.n)
      [] v.type.tmpl = "scalar" /\ v.type.elem = "char" -> v.s
      [] v.type.tmpl = "scalar" /\ v.type.elem = "wchar_t" ->
            IF char_type(sid) = "wchar_t" THEN v.s ELSE IntStr(v.n)
      [] v.type.tmpl = "scalar" /\ v.type.elem \in {"char8_t", "char16_t", "char32_t"} ->
            IntStr(v.n)
      [] OTHER -> v.s

(***************************************************************************)
(* Formatters                                                              *)
(***************************************************************************)
Formatters == {"default", "custom"}

\* default_formatter<ContainerType, StreamType>::decorators
decorators(t, sid) == delimiters(t, char_type(sid))

\* Formatter::print_prefix: the characters it writes
print_prefix(fmt, t, sid) ==
    IF fmt = "custom" THEN "$$ " ELSE decorators(t, sid).prefix

\* Formatter::print_delimiter: the characters it writes
print_delimiter(fmt, t, sid) ==
    IF fmt = "custom" THEN " | " ELSE decorators(t, sid).separator

\* Formatter::print_suffix: the characters it writes
print_suffix(fmt, t, sid) ==
    IF fmt = "custom" THEN " $$" ELSE decorators(t, sid).suffix

(***************************************************************************)
(* Driver                                                                  *)
(***************************************************************************)
\* is_empty taken to hold of a container with a single element as well
is_empty_upto_one(v) == Len(v.elems) <= 1

\* is_empty: empty() of a container, static length 0 of an array
is_empty(v) ==
    IF v.type.tmpl = "carray" THEN ~(Len(v.elems) # 0) ELSE Len(v.elems) = 0

\* which ToStream overload a call with a value of type t selects
ToStream_overload(t) ==
    CASE is_a_tuple(t) -> "tuple"
      [] is_a_pair(t) -> "pair"
      [] OTHER -> "generic"

\* the formatter an overload uses when the caller names formatter fmt: the
\* tuple overload has no formatter parameter
ToStream_formatter(t, fmt) ==
    IF ToStream_overload(t) = "tuple" THEN "default" ELSE fmt

\* a direct call ToStream(stream, value) compiles: the generic overload
\* needs is_empty and std::begin / std::end of the value
ToStream_compiles(t) ==
    \/ is_a_tuple(t)
    \/ is_a_pair(t)
    \/ t.tmpl = "carray"
    \/ has_empty(t) /\ has_begin(t) /\ has_end(t)

(***************************************************************************)
(* The values printed                                                      *)
(***************************************************************************)
Ints(ns) == [i \in 1..Len(ns) |-> IntV(ns[i])]

Pair(a, b) == Cont(Std("pair"), <<a, b>>)

Tuple(es) == Cont(Std("tuple"), es)

Hello == "Hello"

HelloChars(kind) ==
    <<CharV(kind, 72, "H"), CharV(kind, 101, "e"), CharV(kind, 108, "l"),
      CharV(kind, 108, "l"), CharV(kind, 111, "o")>>

HiChars(kind) == <<CharV(kind, 72, "H"), CharV(kind, 105, "i")>>

\* a string literal as an array: its characters and the terminating null
Literal(kind, chars, txt) ==
    TextV(CArray(kind), Append(chars, CharV(kind, 0, NUL)), txt)

\* a raw array has at least one element: T[0] matches no specialization
Containers ==
    { Cont(Std("vector"), <<>>),
      Cont(Std("vector"), Ints(<<1, 2, 3, 4>>)),
      Cont(Std("list"), Ints(<<7>>)),
      Cont(Std("set"), <<>>),
      Cont(Std("set"), Ints(<<1, 2, 3, 4>>)),
      Cont(Std("multiset"), Ints(<<1, 2, 2>>)),
      Cont(Std("unordered_set"), Ints(<<3, 1>>)),
      Cont(Std("map"), <<Pair(IntV(1), IntV(2)), Pair(IntV(3), IntV(4))>>),
      Cont(Std("unordered_map"), <<Pair(IntV(5), IntV(6))>>),
      Cont(CArray("int"), Ints(<<1, 2, 3, 4, 5>>)),
      Cont(Std("array"), <<>>),
      Cont(Derived("vector"), Ints(<<1, 2>>)),
      Cont(Std("vector"), <<Tuple(Ints(<<1, 2>>)), Tuple(<<>>)>>),
      Cont(Std("vector"), <<Cont(Std("set"), <<>>), Cont(Std("set"), Ints(<<1>>))>>) }

Pairs ==
    { Pair(IntV(10), IntV(100)),
      Pair(IntV(1), IntV(2)),
      Pair(IntV(10), Cont(Std("vector"), <<Pair(IntV(1), IntV(2))>>)) }

Tuples ==
    { Tuple(<<>>),
      Tuple(Ints(<<1>>)),
      Tuple(Ints(<<1, 2>>)),
      Tuple(Ints(<<1, 2, 3, 4>>)),
      Tuple(Ints(<<1, 2, 3, 4, 5>>)),
      Tuple(<<IntV(1), Pair(IntV(2), IntV(3)), Tuple(Ints(<<4, 5, 6>>))>>) }

Texts ==
    { Literal("char", HelloChars("char"), Hello),
      Literal("wchar_t", HelloChars("wchar_t"), Hello),
      Literal("char16_t", HiChars("char16_t"), "Hi"),
      TextV(Str("basic_string", "char"), HelloChars("char"), Hello),
      TextV(Str("basic_string_view", "char"), HiChars("char"), "Hi") }

\* values of types that are not printable as a container and that the
\* library has no operator<< for, alone and as an element
Opaque ==
    { Cont(Std("stack"), Ints(<<1, 2>>)),
      Cont(Derived("stack"), Ints(<<1>>)),
      Cont(Std("vector"), <<Cont(Std("stack"), Ints(<<1>>))>>) }

Values == Containers \cup Pairs \cup Tuples \cup Texts \cup Opaque

\* the types a classification query is asked about
Types ==
    {Std(c) : c \in StdTemplates \ {"basic_string", "basic_string_view"}}
      \cup {Str(c, k) : c \in {"basic_string", "basic_string_view"}, k \in {"char", "wchar_t"}}
      \cup {CArray(e) : e \in CharKinds \cup {"int"}}
      \cup {Derived(c) : c \in StdTemplates}
      \cup {Scalar(e) : e \in CharKinds \cup {"int"}}

\* overload resolution of `stream << value`: the standard library's own
\* operator<< for a text of the stream's character type (or a narrow
\* character array) is more specialized than the container operator<<
std_inserter(t, sid) ==
    \/ t.tmpl \in {"basic_string", "basic_string_view"} /\ t.elem = char_type(sid)
    \/ t.tmpl = "carray" /\ t.elem \in {"char", char_type(sid)} /\ t.elem \in {"char", "wchar_t"}
    \/ t.tmpl = "scalar"

\* the container operator<< without its enable_if
container_inserter_unconstrained(t, sid) == ~std_inserter(t, sid)

\* the container operator<< preferred to the library's whenever it is enabled
container_inserter_by_trait_alone(t, sid) == is_printable_as_container_v(t)

\* the container operator<< takes part in overload resolution (enable_if)
\* and no more specialized standard overload exists
container_inserter(t, sid) ==
    /\ is_printable_as_container_v(t)
    /\ ~std_inserter(t, sid)

\* the library's inserter of a pointer, to which an array that no other
\* operator<< takes converts: it writes an address
pointer_inserter(t, sid) ==
    /\ t.tmpl = "carray"
    /\ ~is_printable_as_container_v(t)
    /\ ~std_inserter(t, sid)

\* `stream << value` compiles: an operator<< accepts the value, and every
\* `stream << element` the chosen ToStream instantiates compiles in turn
RECURSIVE insertable(_, _)
insertable(v, sid) ==
    IF container_inserter(v.type, sid)
    THEN \A k \in 1..Len(v.elems) : insertable(v.elems[k], sid)
    ELSE std_inserter(v.type, sid) \/ pointer_inserter(v.type, sid)

(***************************************************************************)
(* State                                                                   *)
(***************************************************************************)
\* statements a test runs on the streams between two resets
MaxCalls == 1

VARIABLES
    streams,    \* the characters written to each stream so far
    rdstate,    \* each stream's error state: goodbit or badbit
    sink,       \* whether each stream's buffer still accepts characters
    repr,       \* the representation a manipulator selected on each stream
    stack,      \* the active calls of ToStream and tuple_handler::print
    cur,        \* the statement being run, or the last one run
    log,        \* the writes of the current statement, in order
    calls       \* statements run since the streams were reset

vars == <<streams, rdstate, sink, repr, stack, cur, log, calls>>

NoValue == IntV(0)

Idle ==
    [active |-> FALSE, done |-> FALSE, sid |-> "cout", entry |-> "none",
     v |-> NoValue, fmt |-> "default", pre |-> "",
     ty |-> IntT, evaluated |-> FALSE, printable |-> FALSE, parseable |-> FALSE,
     ct |-> "char", values |-> undefined_values("char"), seen |-> <<>>]

Init ==
    /\ streams = [sid \in Streams |-> ""]
    /\ rdstate = [sid \in Streams |-> "goodbit"]
    /\ sink = [sid \in Streams |-> "ok"]
    /\ repr = [sid \in Streams |-> "literal"]
    /\ stack = <<>>
    /\ cur = Idle
    /\ log = <<>>
    /\ calls = 0

\* a call of ToStream(stream, container) with the formatter the caller names
ToStreamFrame(v, fmt, lvl) ==
    [fn |-> "ToStream", path |-> ToStream_overload(v.type), v |-> v,
     fmt |-> ToStream_formatter(v.type, fmt), pc |-> "prefix", i |-> 0, lvl |-> lvl]

\* the handler reading std::get<sizeof...(Args) - 1>
handler_index_before(k) == k - 1

\* std::get<sizeof...(Args)>(container) in the handler of a tuple type of k
\* types (FirstElement and k - 1 Args): the position, from 1, of the element
handler_index(k) == (k - 1) + 1

\* the handler without its specialization for a tuple of a single type
HandlerFrame_without_single(v, k, lvl) ==
    [fn |-> "tuple_handler", path |-> "tuple", v |-> v,
     fmt |-> "default",
     pc |-> (IF k = 0 THEN "empty" ELSE "recurse"),
     i |-> k, lvl |-> lvl]

\* a call of tuple_handler<std::tuple<k types>>::print(stream, tuple)
HandlerFrame(v, k, lvl) ==
    [fn |-> "tuple_handler", path |-> "tuple", v |-> v,
     fmt |-> "default",
     pc |-> (CASE k = 0 -> "empty" [] k = 1 -> "single" [] OTHER -> "recurse"),
     i |-> k, lvl |-> lvl]

Top == stack[Len(stack)]

Below == SubSeq(stack, 1, Len(stack) - 1)

\* a write on the stream goes through: the stream is good() and its buffer
\* takes the characters
accepts(sid, txt) == rdstate[sid] = "goodbit" /\ (sink[sid] = "ok" \/ txt = "")

Event(op, idx, txt) ==
    [op |-> op, idx |-> idx, lvl |-> Top.lvl, text |-> txt, ok |-> accepts(cur.sid, txt)]

\* `stream << characters`: appended when the write goes through; a stream
\* that is not good() writes nothing, and a refused write sets badbit
Insert(sid, txt) ==
    /\ streams' = [streams EXCEPT ![sid] = IF accepts(sid, txt) THEN @ \o txt ELSE @]
    /\ rdstate' = [rdstate EXCEPT ![sid] = IF accepts(sid, txt) THEN @ ELSE "badbit"]

\* a write that clears the stream's error state, as a printer that
\* suppressed failures would
Write_suppressing_failure(txt) ==
    /\ streams' = [streams EXCEPT
                      ![cur.sid] = IF accepts(cur.sid, txt) THEN @ \o txt ELSE @]
    /\ rdstate' = [rdstate EXCEPT ![cur.sid] = "goodbit"]

\* a write that waits until the stream takes it
Write_waiting_for_stream(txt) ==
    /\ accepts(cur.sid, txt)
    /\ Insert(cur.sid, txt)

Write(txt) == Insert(cur.sid, txt)

\* an operator<< that handed the caller's formatter on to ToStream
operator_formatter_of_caller(fmt) == fmt

\* the formatter of the ToStream call operator<< makes, from a call that
\* runs with formatter fmt: operator<< names none, so it is the default of
\* FormatterType
operator_formatter(fmt) == "default"

\* `stream << element` from a frame that continues as `next`: the container
\* operator<< (a nested ToStream with the default formatter) or the
\* stream's own formatting.  The operator is looked up where the template
\* is instantiated, as the build the header is written for does (it also
\* accepts StreamType::char_type without typename).
InsertElement(next, e, op, idx) ==
    IF container_inserter(e.type, cur.sid)
    THEN /\ stack' = Append(Append(Below, next),
                            ToStreamFrame(e, operator_formatter(Top.fmt), Top.lvl + 1))
         /\ log' = Append(log, Event(op, idx, ""))
         /\ UNCHANGED <<streams, rdstate>>
    ELSE /\ stack' = Append(Below, next)
         /\ log' = Append(log, Event(op, idx, Native(e, cur.sid)))
         /\ Write(Native(e, cur.sid))

(***************************************************************************)
(* Statements                                                              *)
(***************************************************************************)
Begin(sid, entry, v, fmt, evaluated) ==
    [active |-> TRUE, done |-> FALSE, sid |-> sid, entry |-> entry,
     v |-> v, fmt |-> fmt, pre |-> streams[sid],
     ty |-> v.type, evaluated |-> evaluated,
     printable |-> evaluated /\ is_printable_as_container_v(v.type),
     parseable |-> FALSE,
     ct |-> char_type(sid), values |-> undefined_values("char"),
     seen |-> IF entry = "ill-formed" THEN cur.seen
              ELSE Append(cur.seen, [sid |-> sid, entry |-> entry, v |-> v, fmt |-> fmt])]

\* a static evaluation of is_printable_as_container<Type>::value
Classify(t) ==
    /\ ~cur.active
    /\ calls < MaxCalls
    /\ cur' = [Idle EXCEPT !.done = TRUE, !.entry = "trait", !.ty = t,
                           !.evaluated = TRUE,
                           !.printable = is_printable_as_container_v(t),
                           !.seen = cur.seen]
    /\ log' = <<>>
    /\ calls' = calls + 1
    /\ UNCHANGED <<streams, rdstate, sink, repr, stack>>

\* the character types the delimiters are asked for
Widths == {"char", "wchar_t", "char16_t", "char32_t"}

\* the container types the delimiters are asked for
Looked ==
    {CArray("int"), Std("vector"), Std("set"), Std("multiset"), Std("map"),
     Std("unordered_set"), Std("pair"), Std("tuple")}

\* a static read of delimiters<Type, CharacterType>::values
Lookup(t, ct) ==
    /\ ~cur.active
    /\ calls < MaxCalls
    /\ cur' = [Idle EXCEPT !.done = TRUE, !.entry = "delimiters", !.ty = t,
                           !.ct = ct, !.values = delimiters(t, ct),
                           !.seen = cur.seen]
    /\ log' = <<>>
    /\ calls' = calls + 1
    /\ UNCHANGED <<streams, rdstate, sink, repr, stack>>

\* `stream << container` resolved to the container operator<<, which calls
\* ToStream(stream, container) with the default formatter
OperatorInsert(sid, v) ==
    /\ ~cur.active
    /\ calls < MaxCalls
    /\ container_inserter(v.type, sid)
    /\ insertable(v, sid)
    /\ cur' = Begin(sid, "operator<<", v, "default", TRUE)
    /\ stack' = <<ToStreamFrame(v, "default", 1)>>
    /\ log' = <<>>
    /\ calls' = calls + 1
    /\ UNCHANGED <<streams, rdstate, sink, repr>>

\* `stream << text` resolved to the standard library's operator<<: the
\* container operator<< is disabled or less specialized
StdInsert(sid, v) ==
    /\ ~cur.active
    /\ calls < MaxCalls
    /\ v.type.tmpl \in {"scalar", "carray", "basic_string", "basic_string_view"}
    /\ std_inserter(v.type, sid)
    /\ cur' = [Begin(sid, "std<<", v, "default", TRUE) EXCEPT !.active = FALSE, !.done = TRUE]
    /\ Insert(sid, Native(v, sid))
    /\ log' = <<[op |-> "std<<", idx |-> 0, lvl |-> 1, text |-> Native(v, sid),
                 ok |-> accepts(sid, Native(v, sid))]>>
    /\ calls' = calls + 1
    /\ UNCHANGED <<sink, repr, stack>>

\* `stream << value` that no operator<< accepts, or whose ToStream
\* instantiates a `stream << element` that none accepts: the statement is
\* rejected when it is compiled, and nothing of it runs
IllFormed(sid, v) ==
    /\ ~cur.active
    /\ calls < MaxCalls
    /\ ~insertable(v, sid)
    /\ cur' = [Begin(sid, "ill-formed", v, "default", TRUE)
                 EXCEPT !.active = FALSE, !.done = TRUE]
    /\ log' = <<>>
    /\ calls' = calls + 1
    /\ UNCHANGED <<streams, rdstate, sink, repr, stack>>

\* a direct call ContainerPrinter::ToStream(stream, container), with the
\* formatter the caller names as the FormatterType template argument (a
\* formatter named in a call on a tuple binds the unnamed enable_if
\* parameter of the tuple overload and is ignored)
ToStream(sid, v, fmt) ==
    /\ ~cur.active
    /\ calls < MaxCalls
    /\ ToStream_compiles(v.type)
    /\ \A k \in 1..Len(v.elems) : insertable(v.elems[k], sid)
    /\ cur' = Begin(sid, "ToStream", v, fmt, FALSE)
    /\ stack' = <<ToStreamFrame(v, fmt, 1)>>
    /\ log' = <<>>
    /\ calls' = calls + 1
    /\ UNCHANGED <<streams, rdstate, sink, repr>>

\* the test's reset of its streams between two sections: str("") and
\* clear(), which leave the stream's representation as it is
Reset ==
    /\ ~cur.active
    /\ calls > 0
    /\ streams' = [sid \in Streams |-> ""]
    /\ rdstate' = [sid \in Streams |-> "goodbit"]
    /\ cur' = Idle
    /\ log' = <<>>
    /\ calls' = 0
    /\ UNCHANGED <<sink, repr, stack>>

(***************************************************************************)
(* ToStream: the steps of the three overloads                              *)
(***************************************************************************)
Running(fn, pcs) ==
    /\ cur.active
    /\ stack # <<>>
    /\ Top.fn = fn
    /\ Top.pc \in pcs

\* Formatter::print_prefix(stream), then the overload's next step
PrintPrefix ==
    /\ Running("ToStream", {"prefix"})
    /\ LET txt == print_prefix(Top.fmt, Top.v.type, cur.sid)
           next == CASE Top.path = "tuple" -> "handler"
                     [] Top.path = "pair" -> "element"
                     [] OTHER -> IF is_empty(Top.v) THEN "suffix" ELSE "element"
       IN /\ Write(txt)
          /\ log' = Append(log, Event("print_prefix", 0, txt))
          /\ stack' = Append(Below, [Top EXCEPT !.pc = next, !.i = 1])
    /\ UNCHANGED <<sink, repr, cur, calls>>

\* Formatter::print_element(stream, element): the first or second member
\* of a pair, the element under the cursor of a container
PrintElement ==
    /\ Running("ToStream", {"element"})
    /\ Top.path \in {"pair", "generic"}
    /\ LET n == Len(Top.v.elems)
           next == IF Top.i < n THEN "delimiter" ELSE "suffix"
       IN InsertElement([Top EXCEPT !.pc = next], Top.v.elems[Top.i],
                        "print_element", Top.i)
    /\ UNCHANGED <<sink, repr, cur, calls>>

\* Formatter::print_delimiter(stream), before the next element
PrintDelimiter ==
    /\ Running("ToStream", {"delimiter"})
    /\ LET txt == print_delimiter(Top.fmt, Top.v.type, cur.sid)
       IN /\ Write(txt)
          /\ log' = Append(log, Event("print_delimiter", Top.i, txt))
          /\ stack' = Append(Below, [Top EXCEPT !.pc = "element", !.i = @ + 1])
    /\ UNCHANGED <<sink, repr, cur, calls>>

\* Formatter::print_suffix(stream) and the return of ToStream; the
\* statement ends when the outermost ToStream returns
PrintSuffix ==
    /\ Running("ToStream", {"suffix"})
    /\ LET txt == print_suffix(Top.fmt, Top.v.type, cur.sid)
       IN /\ Write(txt)
          /\ log' = Append(log, Event("print_suffix", 0, txt))
          /\ stack' = Below
          /\ cur' = IF Below = <<>>
                    THEN [cur EXCEPT !.active = FALSE, !.done = TRUE]
                    ELSE cur
    /\ UNCHANGED <<sink, repr, calls>>

(***************************************************************************)
(* tuple_handler                                                           *)
(***************************************************************************)
\* the tuple overload calls tuple_handler<ContainerType>::print
HandlerCall ==
    /\ Running("ToStream", {"handler"})
    /\ stack' = Append(Append(Below, [Top EXCEPT !.pc = "suffix"]),
                       HandlerFrame(Top.v, Len(Top.v.elems), Top.lvl))
    /\ UNCHANGED <<streams, rdstate, sink, repr, cur, log, calls>>

\* a handler that writes the separator character without the space
handler_separator_bare(t, sid) == ","

\* the handler's decorators.separator: read from
\* delimiters<TupleType, StreamType::char_type>::values, not through the
\* formatter
handler_separator(t, sid) == delimiters(t, char_type(sid)).separator

\* tuple_handler<std::tuple<>>::print: nothing is written
HandlerEmpty ==
    /\ Running("tuple_handler", {"empty"})
    /\ stack' = Below
    /\ UNCHANGED <<streams, rdstate, sink, repr, cur, log, calls>>

\* tuple_handler<std::tuple<SingleArg>>::print: stream << std::get<0>(tuple)
HandlerSingle ==
    /\ Running("tuple_handler", {"single"})
    /\ InsertElement([Top EXCEPT !.pc = "return"], Top.v.elems[1], "get", 1)
    /\ UNCHANGED <<sink, repr, cur, calls>>

\* tuple_handler<std::tuple<FirstElement, Args...>>::print: first the
\* handler of std::tuple<Args...> on the same tuple
HandlerRecurse ==
    /\ Running("tuple_handler", {"recurse"})
    /\ stack' = Append(Append(Below, [Top EXCEPT !.pc = "separator"]),
                       HandlerFrame(Top.v, Top.i - 1, Top.lvl))
    /\ UNCHANGED <<streams, rdstate, sink, repr, cur, log, calls>>

\* ... then stream << decorators.separator
HandlerSeparator ==
    /\ Running("tuple_handler", {"separator"})
    /\ LET txt == handler_separator(Top.v.type, cur.sid)
       IN /\ Write(txt)
          /\ log' = Append(log, Event("separator", Top.i, txt))
          /\ stack' = Append(Below, [Top EXCEPT !.pc = "get"])
    /\ UNCHANGED <<sink, repr, cur, calls>>

\* ... then << std::get<sizeof...(Args)>(container)
HandlerGet ==
    /\ Running("tuple_handler", {"get"})
    /\ InsertElement([Top EXCEPT !.pc = "return"], Top.v.elems[handler_index(Top.i)],
                     "get", handler_index(Top.i))
    /\ UNCHANGED <<sink, repr, cur, calls>>

\* the return of tuple_handler::print
HandlerReturn ==
    /\ Running("tuple_handler", {"return"})
    /\ stack' = Below
    /\ UNCHANGED <<streams, rdstate, sink, repr, cur, log, calls>>

(***************************************************************************)
(* The classification of the header the tests include: the shape of a      *)
(* type and traits::is_parseable_as_container.  ContainerPrinter.hpp has   *)
(* no trait for extraction, so both are written from the specification's   *)
(* decision order.                                                         *)
(***************************************************************************)
\* class templates with an element append (push_back)
Appendable == {"vector", "deque", "list", "basic_string"}

\* class templates with an emplace that takes no iterator (emplace,
\* emplace_front)
Emplaceable ==
    {"forward_list", "set", "multiset", "map", "multimap",
     "unordered_set", "unordered_multiset", "unordered_map", "unordered_multimap"}

\* the shape with the member test taken before the tests for text
Shape_members_first(t) ==
    IF detected_members(t) THEN "Sequence"
    ELSE IF t.tmpl = "carray" THEN "FixedArray"
    ELSE IF MemberClass(t) = "pair" THEN "Pair"
    ELSE IF MemberClass(t) = "tuple" THEN "Tuple"
    ELSE "Opaque"

\* the shape of a type, first match first; a class derived from a standard
\* type has the shape of its base
Shape(t) ==
    IF t.tmpl = "scalar" /\ t.elem \in CharKinds THEN "CharScalar"
    ELSE IF t.tmpl = "carray" /\ t.elem \in CharKinds THEN "StringLike"
    ELSE IF MemberClass(t) \in {"basic_string", "basic_string_view"} THEN "StringLike"
    ELSE IF MemberClass(t) = "pair" THEN "Pair"
    ELSE IF MemberClass(t) = "tuple" THEN "Tuple"
    ELSE IF t.tmpl = "carray" THEN "FixedArray"
    ELSE IF detected_members(t)
         THEN (IF MemberClass(t) \in {"set", "multiset", "unordered_set", "unordered_multiset"}
               THEN "Set-like"
               ELSE IF MemberClass(t) \in {"map", "multimap", "unordered_map", "unordered_multimap"}
               THEN "Map-like"
               ELSE "Sequence")
    ELSE "Opaque"

ContainerShapes == {"Sequence", "Set-like", "Map-like", "Pair", "Tuple", "FixedArray"}

\* the type supports insertion: an element append, an emplace without an
\* iterator, or assignment through an output cursor (an array and
\* std::array); the components of a pair or tuple are assignable
supports_insertion(t) ==
    \/ MemberClass(t) \in Appendable
    \/ MemberClass(t) \in Emplaceable
    \/ MemberClass(t) \in {"array", "carray"}
    \/ MemberClass(t) \in {"pair", "tuple"}

\* traits::is_parseable_as_container<Type>::value
is_parseable_as_container(t) ==
    Shape(t) \in ContainerShapes /\ supports_insertion(t)

\* a static evaluation of is_parseable_as_container<Type>::value
ClassifyParseable(t) ==
    /\ ~cur.active
    /\ calls < MaxCalls
    /\ cur' = [Idle EXCEPT !.done = TRUE, !.entry = "parseable", !.ty = t,
                           !.parseable = is_parseable_as_container(t),
                           !.seen = cur.seen]
    /\ log' = <<>>
    /\ calls' = calls + 1
    /\ UNCHANGED <<streams, rdstate, sink, repr, stack>>

Next ==
    \/ \E t \in Types : Classify(t)
    \/ \E t \in Types : ClassifyParseable(t)
    \/ \E t \in Looked, ct \in Widths : Lookup(t, ct)
    \/ \E sid \in Streams, v \in Values : OperatorInsert(sid, v)
    \/ \E sid \in Streams, v \in Values : StdInsert(sid, v)
    \/ \E sid \in Streams, v \in Values : IllFormed(sid, v)
    \/ \E sid \in Streams, v \in Values, fmt \in Formatters : ToStream(sid, v, fmt)
    \/ Reset
    \/ PrintPrefix
    \/ PrintElement
    \/ PrintDelimiter
    \/ PrintSuffix
    \/ HandlerCall
    \/ HandlerEmpty
    \/ HandlerSingle
    \/ HandlerRecurse
    \/ HandlerSeparator
    \/ HandlerGet
    \/ HandlerReturn

Spec == Init /\ [][Next]_vars

(***************************************************************************)
(* The representation of characters and strings: strings::literal,         *)
(* strings::quoted and the manipulators literalrepr and quotedrepr of the  *)
(* header the tests include.  ContainerPrinter.hpp defines none of them,   *)
(* so they are written from the specification and from the outputs the     *)
(* tests expect.                                                           *)
(***************************************************************************)
Reprs == {"literal", "quoted"}

HexDigit(d) ==
    CASE d < 10 -> Digit(d)
      [] d = 10 -> "a" [] d = 11 -> "b" [] d = 12 -> "c"
      [] d = 13 -> "d" [] d = 14 -> "e" [] d = 15 -> "f"

\* a code in hexadecimal, in the given number of digits
RECURSIVE Hex(_, _)
Hex(n, digits) ==
    IF digits = 0 THEN "" ELSE Hex(n \div 16, digits - 1) \o HexDigit(n % 16)

\* the hexadecimal digits of one character of the kind: two for each byte
hex_width(kind) ==
    CASE kind \in {"char", "char8_t"} -> 2
      [] kind = "char16_t" -> 4
      [] kind \in {"wchar_t", "char32_t"} -> 8

\* the prefix of a literal of the kind
literal_prefix(kind) ==
    CASE kind = "wchar_t" -> "L"
      [] kind = "char8_t" -> "u8"
      [] kind = "char16_t" -> "u"
      [] kind = "char32_t" -> "U"
      [] OTHER -> ""

\* the control characters with a mnemonic escape
Mnemonics == {0, 7, 8, 9, 10, 11, 12, 13}

mnemonic(code) ==
    CASE code = 0 -> "\\0" [] code = 7 -> "\\a" [] code = 8 -> "\\b"
      [] code = 9 -> "\\t" [] code = 10 -> "\\n" [] code = 11 -> "\\v"
      [] code = 12 -> "\\f" [] code = 13 -> "\\r"

\* one character of a value of kind src on a stream of character type dst:
\* a hexadecimal escape when the two differ; else the quote and the
\* backslash escaped, and in literal representation the control characters
\* too, by mnemonic or in hexadecimal
escape_char(c, src, dst, mode, quote) ==
    IF src # dst THEN "\\x" \o Hex(c.n, hex_width(src))
    ELSE IF c.s = quote \/ c.s = "\\" THEN "\\" \o c.s
    ELSE IF mode = "literal" /\ c.n \in Mnemonics THEN mnemonic(c.n)
    ELSE IF mode = "literal" /\ (c.n < 32 \/ c.n = 127)
         THEN "\\x" \o Hex(c.n, hex_width(src))
    ELSE c.s

RECURSIVE escape_chars(_, _, _, _, _)
escape_chars(cs, src, dst, mode, quote) ==
    IF cs = <<>> THEN ""
    ELSE escape_char(cs[1], src, dst, mode, quote)
            \o escape_chars(Tail(cs), src, dst, mode, quote)

IsChar(v) == v.type.tmpl = "scalar" /\ v.type.elem \in CharKinds

IsString(v) == v.type.tmpl \in {"basic_string", "basic_string_view"}

\* the characters of a text: a character array ends with a null character
\* that is no part of them
text_chars(v) ==
    IF v.type.tmpl = "carray" THEN SubSeq(v.elems, 1, Len(v.elems) - 1) ELSE v.elems

\* a character in single quotes, a text in double quotes, escaped
represented(v, ct, mode) ==
    IF IsChar(v)
    THEN literal_prefix(v.type.elem) \o "'"
            \o escape_char(v, v.type.elem, ct, mode, "'") \o "'"
    ELSE literal_prefix(v.type.elem) \o "\""
            \o escape_chars(text_chars(v), v.type.elem, ct, mode, "\"") \o "\""

\* strings::literal(value) written to a stream of character type ct
literal(v, ct) == represented(v, ct, "literal")

\* strings::quoted(value) written to a stream of character type ct
quoted(v, ct) == represented(v, ct, "quoted")

\* a manipulator that sets the representation of every stream
setrepr_of_every_stream(r, sid, mode) == [s \in Streams |-> mode]

\* the representation of one stream set
setrepr(r, sid, mode) == [r EXCEPT ![sid] = mode]

Manipulate(sid, mode) ==
    /\ ~cur.active
    /\ repr' = setrepr(repr, sid, mode)
    /\ cur' = [Idle EXCEPT !.done = TRUE, !.entry = "manipulator", !.sid = sid,
                           !.seen = cur.seen]
    /\ log' = <<>>
    /\ UNCHANGED <<streams, rdstate, sink, stack, calls>>

\* stream << strings::literalrepr
literalrepr(sid) == Manipulate(sid, "literal")

\* stream << strings::quotedrepr
quotedrepr(sid) == Manipulate(sid, "quoted")

\* stream << strings::literal(value), of a character or a text
LiteralInsert(sid, v) ==
    /\ ~cur.active
    /\ calls < MaxCalls
    /\ IsChar(v) \/ IsString(v) \/ (v.type.tmpl = "carray" /\ v.type.elem \in CharKinds)
    /\ cur' = [Begin(sid, "literal()", v, "default", FALSE)
                 EXCEPT !.active = FALSE, !.done = TRUE]
    /\ Insert(sid, literal(v, char_type(sid)))
    /\ log' = <<[op |-> "literal()", idx |-> 0, lvl |-> 1,
                 text |-> literal(v, char_type(sid)),
                 ok |-> accepts(sid, literal(v, char_type(sid)))]>>
    /\ calls' = calls + 1
    /\ UNCHANGED <<sink, repr, stack>>

(***************************************************************************)
(* The statements of the tests on characters and strings                   *)
(***************************************************************************)
TesTab == <<"t", "e", "s", TAB>>

Test == <<"t", "e", "s", "t">>

\* the characters and texts the tests stream alone
Alone ==
    { Ch("char", TAB),
      Literal("char", Chars("char", TesTab), Concat(TesTab)),
      String("char", TesTab),
      StringView("char", TesTab),
      String("char", Test),
      String("wchar_t", Test) }

\* the containers of characters and strings the tests print
Quoting ==
    { Cont(Std("vector"), Chars("char", <<"t", "e", "s", TAB, NUL>>)),
      Cont(Std("vector"), Chars("char", <<"t", "e", "s", TAB, DEL>>)),
      Cont(Std("vector"), <<String("char", TesTab)>>),
      Cont(Std("vector"), <<String("char", Test)>>),
      Cont(Std("vector"), <<String("wchar_t", Test)>>) }

TemplateMap ==
    Cont(Std("map"),
         <<Pair(IntV(1), String("char", <<"T", "e", "m", "p", "l", "a", "t", "e">>)),
           Pair(IntV(2), String("char", <<"M", "e", "t", "a">>)),
           Pair(IntV(3), String("char", <<"P", "r", "o", "g", "r", "a", "m", "m", "i", "n", "g">>))>>)

WhyNot ==
    Pair(IntV(10),
         Cont(Std("vector"),
              <<Pair(String("char", <<"W", "h", "y">>), String("char", <<"N", "o", "t", "?">>)),
                Pair(String("char", <<"S", "o", "m", "e", "o", "n", "e">>), String("char", <<"M", "i", "g", "h", "t", "!">>))>>))

HelloWorld ==
    Cont(Std("vector"),
         <<Tuple(<<IntV(1), String("char", <<"H", "e", "l", "l", "o">>)>>),
           Tuple(<<IntV(2), String("char", <<"W", "o", "r", "l", "d">>)>>)>>)

Nested == {TemplateMap, WhyNot, HelloWorld}

StringValues == Alone \cup Quoting \cup Nested

NextStrings ==
    \/ \E sid \in Streams : literalrepr(sid)
    \/ \E sid \in Streams : quotedrepr(sid)
    \/ \E sid \in Streams, v \in StringValues : LiteralInsert(sid, v)
    \/ \E sid \in Streams, v \in StringValues : OperatorInsert(sid, v)
    \/ \E sid \in Streams, v \in StringValues : StdInsert(sid, v)
    \/ \E sid \in Streams, v \in StringValues : IllFormed(sid, v)
    \/ Reset
    \/ PrintPrefix
    \/ PrintElement
    \/ PrintDelimiter
    \/ PrintSuffix
    \/ HandlerCall
    \/ HandlerRecurse
    \/ HandlerSeparator
    \/ HandlerSingle
    \/ HandlerGet
    \/ HandlerReturn

SpecStrings == Init /\ [][NextStrings]_vars

(***************************************************************************)
(* Properties                                                              *)
(***************************************************************************)
\* the writes the outermost call made itself, not those of nested prints
Outer == SelectSeq(log, LAMBDA e : e.lvl = 1)

Steps(ev) == [k \in 1..Len(ev) |-> <<ev[k].op, ev[k].idx>>]

Count(ev, op) == Cardinality({k \in 1..Len(ev) : ev[k].op = op})

\* all characters a statement wrote, in order
RECURSIVE Written(_)
Written(ev) == IF ev = <<>> THEN "" ELSE ev[1].text \o Written(Tail(ev))

RECURSIVE Joined(_, _)
Joined(es, sep) ==
    IF es = <<>> THEN ""
    ELSE IF Len(es) = 1 THEN IntStr(es[1].n)
    ELSE IntStr(es[1].n) \o sep \o Joined(Tail(es), sep)

AllInts(v) == \A k \in 1..Len(v.elems) : v.elems[k].type = IntT

\* a print statement (operator<< or ToStream) has returned
Printed == cur.done /\ cur.entry \in {"operator<<", "ToStream"}

Output == streams[cur.sid]

\* prefix, element 1, then delimiter and element for 2..n, suffix
ElementwiseSteps(n, element, delimiter, shift) ==
    [k \in 1..(IF n = 0 THEN 2 ELSE 2 * n + 1) |->
        IF k = 1 THEN <<"print_prefix", 0>>
        ELSE IF k = (IF n = 0 THEN 2 ELSE 2 * n + 1) THEN <<"print_suffix", 0>>
        ELSE IF k % 2 = 0 THEN <<element, k \div 2>>
        ELSE <<delimiter, (k \div 2) + shift>>]

IsGeneric(t) == ~is_a_pair(t) /\ ~is_a_tuple(t)

\* C1: a generic container of n elements prints as prefix, element 1, then a
\* delimiter and the element for each further element in iteration order,
\* then suffix: n elements, max(n-1, 0) delimiters, and prefix + suffix alone
\* when it is empty
C1_GenericContainerOutput ==
    (Printed /\ IsGeneric(cur.v.type)) =>
        LET n == Len(cur.v.elems)
            pre == print_prefix(cur.fmt, cur.v.type, cur.sid)
            sep == print_delimiter(cur.fmt, cur.v.type, cur.sid)
            suf == print_suffix(cur.fmt, cur.v.type, cur.sid)
        IN /\ Steps(Outer) = ElementwiseSteps(n, "print_element", "print_delimiter", 0)
           /\ Count(Outer, "print_element") = n
           /\ Count(Outer, "print_delimiter") = (IF n = 0 THEN 0 ELSE n - 1)
           /\ Outer[1].text = pre
           /\ Outer[Len(Outer)].text = suf
           /\ \A k \in 1..Len(Outer) : Outer[k].op = "print_delimiter" => Outer[k].text = sep
           /\ Output = cur.pre \o Written(log)
           /\ n = 0 => Output = cur.pre \o pre \o suf
           /\ AllInts(cur.v) => Output = cur.pre \o pre \o Joined(cur.v.elems, sep) \o suf
           /\ (cur.fmt = "default" /\ cur.v = Cont(Std("vector"), Ints(<<1, 2, 3, 4>>)))
                 => Output = cur.pre \o "[1, 2, 3, 4]"
           /\ (cur.fmt = "default" /\ cur.v = Cont(Std("array"), <<>>))
                 => Output = cur.pre \o "[]"
           /\ cur.v.type.tmpl = "carray" => n > 0

C1_Witness ==
    /\ Printed
    /\ cur.entry = "operator<<"
    /\ cur.v = Cont(Std("vector"), Ints(<<1, 2, 3, 4>>))
    /\ Count(Outer, "print_delimiter") = 3
    /\ Output = "[1, 2, 3, 4]"

\* C2: a pair prints by exactly print_prefix, print_element(first),
\* print_delimiter, print_element(second), print_suffix, in this order, so
\* (a, b) prints as "(a, b)" on the narrow and the wide stream
C2_PairFiveSteps ==
    (Printed /\ is_a_pair(cur.v.type)) =>
        /\ Steps(Outer) = << <<"print_prefix", 0>>, <<"print_element", 1>>,
                             <<"print_delimiter", 1>>, <<"print_element", 2>>,
                             <<"print_suffix", 0>> >>
        /\ Count(Outer, "print_delimiter") = 1
        /\ Output = cur.pre \o Written(log)
        /\ (cur.fmt = "default" /\ AllInts(cur.v)) =>
              Output = cur.pre \o "(" \o IntStr(cur.v.elems[1].n) \o ", "
                          \o IntStr(cur.v.elems[2].n) \o ")"
        /\ (cur.fmt = "default" /\ cur.v = Pair(IntV(10), IntV(100))) =>
              Output = cur.pre \o "(10, 100)"

C2_Witness ==
    /\ Printed
    /\ cur.sid = "wcout"
    /\ cur.v = Pair(IntV(10), IntV(100))
    /\ Len(Outer) = 5
    /\ Output = "(10, 100)"

\* C3: a tuple of arity N prints '<', every element once in ascending index
\* order with N-1 separators and none trailing, then '>': "<>" for arity 0
\* and "<x>" for arity 1
C3_TupleOutput ==
    (Printed /\ is_a_tuple(cur.v.type)) =>
        LET n == Len(cur.v.elems)
        IN /\ Steps(Outer) = ElementwiseSteps(n, "get", "separator", 1)
           /\ Count(Outer, "get") = n
           /\ Count(Outer, "separator") = (IF n = 0 THEN 0 ELSE n - 1)
           /\ Outer[1].text = "<"
           /\ Outer[Len(Outer)].text = ">"
           /\ \A k \in 1..Len(Outer) : Outer[k].op = "separator" => Outer[k].text = ", "
           /\ Output = cur.pre \o Written(log)
           /\ AllInts(cur.v) => Output = cur.pre \o "<" \o Joined(cur.v.elems, ", ") \o ">"
           /\ n = 0 => Output = cur.pre \o "<>"
           /\ cur.v = Tuple(Ints(<<1>>)) => Output = cur.pre \o "<1>"
           /\ cur.v = Tuple(Ints(<<1, 2, 3, 4, 5>>)) => Output = cur.pre \o "<1, 2, 3, 4, 5>"

C3_Witness ==
    /\ Printed
    /\ cur.v = Tuple(Ints(<<1, 2, 3, 4, 5>>))
    /\ Count(Outer, "separator") = 4
    /\ Output = "<1, 2, 3, 4, 5>"

\* C4: a formatter the caller supplies is used in place of the default on
\* the generic, the pair and the tuple path: with prefix "$$ ", separator
\* " | " and suffix " $$", vector {1,2,3,4} and tuple (1,2,3,4) print as
\* "$$ 1 | 2 | 3 | 4 $$" and pair (1,2) as "$$ 1 | 2 $$"
C4_CustomFormatterOnEveryPath ==
    (Printed /\ cur.fmt = "custom") =>
        /\ Outer[1].text = "$$ "
        /\ Outer[Len(Outer)].text = " $$"
        /\ cur.v \in {Cont(Std("vector"), Ints(<<1, 2, 3, 4>>)), Tuple(Ints(<<1, 2, 3, 4>>))}
              => Output = cur.pre \o "$$ 1 | 2 | 3 | 4 $$"
        /\ cur.v = Pair(IntV(1), IntV(2)) => Output = cur.pre \o "$$ 1 | 2 $$"

\* the four delimiter sets
Braces(ct) == wrapper(ct, "{", ", ", "}")

Brackets(ct) == wrapper(ct, "[", ", ", "]")

Parens(ct) == wrapper(ct, "(", ", ", ")")

Angles(ct) == wrapper(ct, "<", ", ", ">")

\* the tokens that frame the outermost value of a finished print
Framed(w) ==
    /\ Outer[1].text = w.prefix
    /\ Outer[Len(Outer)].text = w.suffix
    /\ \A k \in 1..Len(Outer) :
          Outer[k].op \in {"print_delimiter", "separator"} => Outer[k].text = w.separator

\* the lookup for every type and both character types of the table
LookupOfEveryType ==
    \A t \in Types, ct \in {"char", "wchar_t"} :
       delimiters(t, ct) =
          (CASE t.tmpl \in {"set", "multiset"} -> Braces(ct)
             [] t.tmpl = "pair" -> Parens(ct)
             [] t.tmpl = "tuple" -> Angles(ct)
             [] OTHER -> Brackets(ct))

\* C5: for the narrow and the wide character type the lookup gives "[" "]"
\* for an unspecialized container, "{" "}" for std::set and std::multiset,
\* "(" ")" for a pair, "<" ">" for a tuple, and ", " between two elements
C5_DelimiterLookup ==
    /\ LookupOfEveryType
    /\ (Printed /\ cur.fmt = "default") =>
          LET ct == char_type(cur.sid)
          IN CASE cur.v.type.tmpl \in {"set", "multiset"} -> Framed(Braces(ct))
               [] cur.v.type.tmpl = "pair" -> Framed(Parens(ct))
               [] cur.v.type.tmpl = "tuple" -> Framed(Angles(ct))
               [] OTHER -> Framed(Brackets(ct))

C5_Witness ==
    /\ Printed
    /\ cur.fmt = "default"
    /\ cur.sid = "wcout"
    /\ cur.v = Cont(Std("multiset"), Ints(<<1, 2, 2>>))
    /\ Output = "{1, 2, 2}"

SetLike == {"set", "multiset", "unordered_set", "unordered_multiset"}

MapLike == {"map", "multimap", "unordered_map", "unordered_multimap"}

\* C6 as claimed: every set-like and every map-like container, ordered or
\* unordered, is framed with "{" and "}"
C6_Original_AllSetsAndMapsBraced ==
    (Printed /\ cur.fmt = "default" /\ cur.v.type.tmpl \in SetLike \cup MapLike) =>
        Framed(Braces(char_type(cur.sid)))

\* C6 amended: only std::set and std::multiset are framed with "{" and "}";
\* maps, multimaps and the unordered sets and maps are framed with the default
\* "[" and "]"
C6_OnlySetAndMultisetBraced ==
    /\ \A c \in SetLike \cup MapLike, ct \in {"char", "wchar_t"} :
          delimiters(Std(c), ct) =
             (IF c \in {"set", "multiset"} THEN Braces(ct) ELSE Brackets(ct))
    /\ (Printed /\ cur.fmt = "default" /\ cur.v.type.tmpl \in SetLike \cup MapLike) =>
          IF cur.v.type.tmpl \in {"set", "multiset"}
          THEN Framed(Braces(char_type(cur.sid)))
          ELSE Framed(Brackets(char_type(cur.sid)))

C6_Witness ==
    /\ Printed
    /\ cur.fmt = "default"
    /\ cur.v.type = Std("map")
    /\ Output = "[(1, 2), (3, 4)]"

\* C7 as claimed: an array of any character kind (char, wchar_t, char8_t,
\* char16_t, char32_t) is never classified printable as a container, and
\* streaming one writes its characters with no brackets and no separators
C7_CharArraysNeverContainers ==
    /\ (cur.evaluated /\ cur.ty.tmpl = "carray" /\ cur.ty.elem \in CharKinds)
          => ~cur.printable
    /\ (cur.done /\ cur.entry \in {"operator<<", "std<<"}
          /\ cur.v.type.tmpl = "carray" /\ cur.v.type.elem \in CharKinds)
          => /\ Output = cur.pre \o cur.v.s
             /\ Count(log, "print_prefix") = 0
             /\ Count(log, "print_delimiter") = 0

\* C8 as claimed: std::basic_string and std::basic_string_view are both
\* classified not printable as containers
C8_StringsNotContainers ==
    (cur.evaluated /\ cur.ty.tmpl \in {"basic_string", "basic_string_view"})
        => ~cur.printable

BaseOf(t) ==
    IF t.base \in {"basic_string", "basic_string_view"}
    THEN Str(t.base, "char") ELSE Std(t.base)

\* C10 as claimed: a class derived from a generic container, a pair or a
\* tuple is classified as its base is, and a class derived from an
\* unprintable type is unprintable
C10_Original_DerivedAsBase ==
    (cur.evaluated /\ cur.ty.tmpl = "derived") =>
        cur.printable = is_printable_as_container(BaseOf(cur.ty))

\* C10 amended: a class derived from a type with begin(), end(), empty(),
\* value_type and iterator is printable and one derived from a type without
\* them is not: derived from vector, list, set or map it is classified as its
\* base, derived from a stack it is unprintable, but derived from std::pair
\* or std::tuple it is unprintable and derived from std::basic_string it is
\* printable, unlike its base
C10_DerivedByMembers ==
    (cur.evaluated /\ cur.ty.tmpl = "derived") =>
        /\ cur.printable <=> cur.ty.base \in WithCursors
        /\ cur.ty.base \in WithCursors \ {"basic_string"}
              => cur.printable = is_printable_as_container(BaseOf(cur.ty))
        /\ cur.ty.base \in Adapters
              => ~cur.printable /\ ~is_printable_as_container(BaseOf(cur.ty))
        /\ cur.ty.base \in {"pair", "tuple"}
              => ~cur.printable /\ is_printable_as_container(BaseOf(cur.ty))
        /\ cur.ty.base = "basic_string"
              => cur.printable /\ ~is_printable_as_container(BaseOf(cur.ty))

C10_Witness ==
    /\ Printed
    /\ cur.entry = "operator<<"
    /\ cur.ty = Derived("vector")
    /\ cur.printable
    /\ Output = "[1, 2]"

(***************************************************************************)
(* Statements on a stream whose buffer stops taking characters             *)
(***************************************************************************)
\* the buffer of a stream stops taking characters: from now on a write of
\* characters to it fails
SinkFails(sid) ==
    /\ sink[sid] = "ok"
    /\ sink' = [sink EXCEPT ![sid] = "broken"]
    /\ UNCHANGED <<streams, rdstate, repr, stack, cur, log, calls>>

\* a value for each path of ToStream, a nested one, and a text
FailValues ==
    { Cont(Std("multiset"), Ints(<<1, 2, 2>>)),
      Pair(IntV(10), IntV(100)),
      Tuple(Ints(<<1, 2>>)),
      Cont(Std("vector"), <<Cont(Std("set"), <<>>), Cont(Std("set"), Ints(<<1>>))>>),
      Literal("char", HelloChars("char"), Hello) }

NextFail ==
    \/ \E sid \in Streams : SinkFails(sid)
    \/ \E sid \in Streams, v \in FailValues : OperatorInsert(sid, v)
    \/ \E sid \in Streams, v \in FailValues : StdInsert(sid, v)
    \/ \E sid \in Streams, v \in FailValues, fmt \in Formatters : ToStream(sid, v, fmt)
    \/ Reset
    \/ PrintPrefix
    \/ PrintElement
    \/ PrintDelimiter
    \/ PrintSuffix
    \/ HandlerCall
    \/ HandlerRecurse
    \/ HandlerSeparator
    \/ HandlerSingle
    \/ HandlerGet
    \/ HandlerReturn

SpecFail == Init /\ [][NextFail]_vars

(***************************************************************************)
(* Properties of characters and strings                                    *)
(***************************************************************************)
\* the text the specification gives a value on a stream: a character or a
\* string represented, any other scalar as the stream formats it, and a
\* container, pair or tuple framed by its delimiters
RECURSIVE Rendered(_, _, _)
RECURSIVE RenderedElements(_, _, _, _)
Rendered(v, sid, mode) ==
    IF IsChar(v) \/ IsString(v) THEN represented(v, char_type(sid), mode)
    ELSE IF v.type.tmpl = "scalar" THEN Native(v, sid)
    ELSE decorators(v.type, sid).prefix
            \o RenderedElements(v.elems, decorators(v.type, sid).separator, sid, mode)
            \o decorators(v.type, sid).suffix

RenderedElements(es, sep, sid, mode) ==
    IF es = <<>> THEN ""
    ELSE IF Len(es) = 1 THEN Rendered(es[1], sid, mode)
    ELSE Rendered(es[1], sid, mode) \o sep \o RenderedElements(Tail(es), sep, sid, mode)

\* every element is a character or a string of the stream's character type
OfStreamCharacters(v, sid) ==
    /\ v.elems # <<>>
    /\ \A k \in 1..Len(v.elems) :
          /\ IsChar(v.elems[k]) \/ IsString(v.elems[k])
          /\ v.elems[k].type.elem = char_type(sid)

\* C11: in the default (literal) representation a char element of a printed
\* container is written in single quotes and a string element in double
\* quotes, control characters as escape sequences: vector<char>
\* {'t','e','s','\t','\0'} prints as ['t', 'e', 's', '\t', '\0'] and
\* vector<string> {"tes\t"} as ["tes\t"], the tab shown as backslash-t
C11_ElementsEscapedByDefault ==
    (cur.done /\ cur.entry \in {"operator<<", "ill-formed"}
       /\ IsGeneric(cur.v.type) /\ OfStreamCharacters(cur.v, cur.sid)
       /\ repr[cur.sid] = "literal") =>
        /\ Output = cur.pre \o Rendered(cur.v, cur.sid, "literal")
        /\ cur.v = Cont(Std("vector"), Chars("char", <<"t", "e", "s", TAB, NUL>>))
              => Output = cur.pre \o "['t', 'e', 's', '\\t', '\\0']"
        /\ cur.v = Cont(Std("vector"), <<String("char", TesTab)>>)
              => Output = cur.pre \o "[\"tes\\t\"]"

\* some element is itself printable as a container, pair or tuple
HasPrintableElement(v) ==
    \E k \in 1..Len(v.elems) : is_printable_as_container_v(v.elems[k].type)

\* C12: an element of a container, pair or tuple that is itself a printable
\* container, pair or tuple is printed recursively, framed by the delimiters
\* of its own shape: the map {(1,"Template"),(2,"Meta"),(3,"Programming")}
\* prints as [(1, "Template"), (2, "Meta"), (3, "Programming")] and the pair
\* (10, vector of pairs) as (10, [("Why", "Not?"), ("Someone", "Might!")])
C12_NestedValuesCompose ==
    (cur.done /\ cur.entry \in {"operator<<", "ill-formed"}
       /\ cur.sid = "cout" /\ repr[cur.sid] = "literal"
       /\ HasPrintableElement(cur.v)) =>
        /\ \A k \in 1..Len(log) :
              log[k].lvl > 1 /\ log[k].op = "print_prefix"
                 => log[k].text \in {"[", "{", "(", "<"}
        /\ Output = cur.pre \o Rendered(cur.v, cur.sid, "literal")
        /\ cur.v = TemplateMap =>
              Output = cur.pre
                 \o "[(1, \"Template\"), (2, \"Meta\"), (3, \"Programming\")]"
        /\ cur.v = WhyNot =>
              Output = cur.pre
                 \o "(10, [(\"Why\", \"Not?\"), (\"Someone\", \"Might!\")])"

\* C13: once quotedrepr has been applied to a stream, every later container
\* print on that stream, over any number of statements and resets, escapes
\* only the quote and the backslash of its char and string elements, until
\* literalrepr is applied to it: vector<char> {'t','e','s','\t','\x7f'}
\* prints with the tab and the delete character themselves between the
\* quotes, and vector<string> {"tes\t"} with the tab itself
C13_QuotedModePersists ==
    (cur.done /\ cur.entry \in {"operator<<", "ill-formed"}
       /\ IsGeneric(cur.v.type) /\ OfStreamCharacters(cur.v, cur.sid)
       /\ repr[cur.sid] = "quoted") =>
        /\ Output = cur.pre \o Rendered(cur.v, cur.sid, "quoted")
        /\ cur.v = Cont(Std("vector"), Chars("char", <<"t", "e", "s", TAB, DEL>>))
              => Output = cur.pre
                    \o "['t', 'e', 's', '" \o TAB \o "', '" \o DEL \o "']"
        /\ cur.v = Cont(Std("vector"), <<String("char", TesTab)>>)
              => Output = cur.pre \o "[\"tes" \o TAB \o "\"]"

\* what the statement `stream << value` writes, as a function of the value
\* and of the stream's character type alone
RECURSIVE Plain(_, _)
RECURSIVE PlainElements(_, _, _)
Plain(v, sid) ==
    IF container_inserter(v.type, sid)
    THEN decorators(v.type, sid).prefix
            \o PlainElements(v.elems, decorators(v.type, sid).separator, sid)
            \o decorators(v.type, sid).suffix
    ELSE Native(v, sid)

PlainElements(es, sep, sid) ==
    IF es = <<>> THEN ""
    ELSE IF Len(es) = 1 THEN Plain(es[1], sid)
    ELSE Plain(es[1], sid) \o sep \o PlainElements(Tail(es), sep, sid)

\* a step that is a manipulator applied to stream s
ManipulatorOn(s) == cur'.entry = "manipulator" /\ cur'.sid = s

\* C14: the representation of a stream is independent of every other
\* stream: a manipulator applied to one stream leaves the representation and
\* the characters of any other stream as they are, nothing else changes a
\* stream's representation, and what a print writes on a stream does not
\* depend on the representation set on another stream
C14_ModeIsPerStream ==
    /\ [][\A s \in Streams :
            /\ repr'[s] # repr[s] => ManipulatorOn(s)
            /\ ManipulatorOn(s) =>
                  \A o \in Streams \ {s} :
                     /\ repr'[o] = repr[o]
                     /\ streams'[o] = streams[o]
                     /\ rdstate'[o] = rdstate[o]]_vars
    /\ [](cur.done /\ cur.entry = "operator<<"
            => Output = cur.pre \o Plain(cur.v, cur.sid))

C14_Witness ==
    /\ cur.done
    /\ cur.entry = "operator<<"
    /\ cur.sid = "wcout"
    /\ repr["cout"] = "quoted"
    /\ repr["wcout"] = "literal"
    /\ cur.v = Cont(Std("vector"), Chars("char", <<"t", "e", "s", TAB, NUL>>))
    /\ Output = "[t, e, s, " \o TAB \o ", " \o NUL \o "]"

\* every element is a character or a string whose character type is not the
\* stream's
OfOtherCharacters(v, sid) ==
    /\ v.elems # <<>>
    /\ \A k \in 1..Len(v.elems) :
          /\ IsChar(v.elems[k]) \/ IsString(v.elems[k])
          /\ v.elems[k].type.elem # char_type(sid)

\* the characters of a value, each as a hexadecimal escape of as many digits
\* as the value's character type is wide
RECURSIVE AllHex(_, _)
AllHex(cs, kind) ==
    IF cs = <<>> THEN ""
    ELSE "\\x" \o Hex(cs[1].n, hex_width(kind)) \o AllHex(Tail(cs), kind)

\* C15: a char or string whose character width differs from the stream's is
\* written with every character as a hexadecimal escape, of as many digits
\* as the source character type is wide, through literal() and as an element
\* of a printed container: the wide string "test" on a narrow stream gives
\* \x00000074\x00000065\x00000073\x00000074 and the narrow string "test" on
\* a wide stream gives \x74\x65\x73\x74
C15_WidthMismatchHexEscapes ==
    /\ (cur.done /\ cur.entry = "literal()" /\ IsString(cur.v)
          /\ cur.v.type.elem # char_type(cur.sid)) =>
          /\ Output = cur.pre \o literal_prefix(cur.v.type.elem) \o "\""
                         \o AllHex(cur.v.elems, cur.v.type.elem) \o "\""
          /\ (cur.v = String("wchar_t", Test) /\ cur.sid = "cout") =>
                Output = cur.pre
                   \o "L\"\\x00000074\\x00000065\\x00000073\\x00000074\""
          /\ (cur.v = String("char", Test) /\ cur.sid = "wcout") =>
                Output = cur.pre \o "\"\\x74\\x65\\x73\\x74\""
    /\ (cur.done /\ cur.entry \in {"operator<<", "ill-formed"}
          /\ IsGeneric(cur.v.type) /\ OfOtherCharacters(cur.v, cur.sid)) =>
          /\ Output = cur.pre \o Rendered(cur.v, cur.sid, repr[cur.sid])
          /\ (cur.v = Cont(Std("vector"), <<String("wchar_t", Test)>>)
                /\ cur.sid = "cout") =>
                Output = cur.pre
                   \o "[L\"\\x00000074\\x00000065\\x00000073\\x00000074\"]"
          /\ (cur.v = Cont(Std("vector"), <<String("char", Test)>>)
                /\ cur.sid = "wcout") =>
                Output = cur.pre \o "[\"\\x74\\x65\\x73\\x74\"]"

IsCharArray(v) == v.type.tmpl = "carray" /\ v.type.elem \in CharKinds

\* a char, character array or string that the stream can take as it is: of
\* the stream's character type, or a narrow char or character array, which
\* a wide stream widens
StreamsDirectly(v, sid) ==
    /\ IsChar(v) \/ IsCharArray(v) \/ IsString(v)
    /\ \/ v.type.elem = char_type(sid)
       \/ v.type.elem = "char" /\ ~IsString(v)

Shapes == {"default", "set", "pair", "tuple"}

\* the shape a type's delimiters are specialized for
ShapeOf(t) ==
    CASE t.tmpl \in {"set", "multiset"} -> "set"
      [] t.tmpl = "pair" -> "pair"
      [] t.tmpl = "tuple" -> "tuple"
      [] OTHER -> "default"

\* C17: every delimiter set is a quadruple {prefix, separator, whitespace,
\* suffix} of non-empty tokens, the separator "," and the whitespace " " as
\* two separate tokens, for every shape (default, set, pair, tuple)
C17_DelimiterQuadruple ==
    (cur.done /\ cur.entry = "delimiters" /\ cur.ct \in {"char", "wchar_t"}
       /\ ShapeOf(cur.ty) \in Shapes) =>
        /\ {"prefix", "separator", "whitespace", "suffix"} \subseteq DOMAIN cur.values
        /\ cur.values.prefix # ""
        /\ cur.values.suffix # ""
        /\ cur.values.separator = ","
        /\ cur.values.whitespace = " "

\* C18: for every shape (default, set, pair, tuple) a delimiter set with the
\* same tokens exists for every supported character type: narrow, wide, and
\* the 16-bit and 32-bit code-unit types
C18_DelimitersForEveryWidth ==
    (cur.done /\ cur.entry = "delimiters" /\ cur.ct \in Widths) =>
        /\ cur.values.defined
        /\ cur.values.type = cur.ct
        /\ cur.values.prefix = delimiters(cur.ty, "char").prefix
        /\ cur.values.separator = delimiters(cur.ty, "char").separator
        /\ cur.values.suffix = delimiters(cur.ty, "char").suffix

(***************************************************************************)
(* Properties of rejection and of stream failures                          *)
(***************************************************************************)
\* the calls of ToStream that operator<< made: the outermost one of a
\* statement `stream << value`, and every nested one
ThroughOperator(k) ==
    /\ stack[k].fn = "ToStream"
    /\ stack[k].lvl > 1 \/ cur.entry = "operator<<"

\* C19: a value whose type is not printable as a container never reaches
\* the printing driver through operator<<: the container operator<< takes
\* part only when is_printable_as_container holds, so the statement is
\* rejected before anything is written, with no partial output
C19_UnprintableNeverReachesDriver ==
    /\ \A k \in 1..Len(stack) :
          ThroughOperator(k) => is_printable_as_container_v(stack[k].v.type)
    /\ cur.entry = "operator<<" => cur.printable
    /\ (cur.entry \in {"operator<<", "std<<", "ill-formed"}
          /\ ~is_printable_as_container_v(cur.v.type)) =>
          /\ stack = <<>>
          /\ Count(log, "print_prefix") = 0
          /\ ~std_inserter(cur.v.type, cur.sid) =>
                /\ cur.entry = "ill-formed"
                /\ log = <<>>
                /\ Output = cur.pre
    /\ cur.entry = "ill-formed" =>
          /\ stack = <<>>
          /\ log = <<>>
          /\ streams[cur.sid] = cur.pre
          /\ rdstate[cur.sid] = "goodbit"

C19_Witness ==
    /\ cur.done
    /\ cur.entry = "ill-formed"
    /\ cur.v = Cont(Std("stack"), Ints(<<1, 2>>))
    /\ ~cur.printable
    /\ Output = ""

\* the writes of a statement that went through
Accepted(ev) == SelectSeq(ev, LAMBDA e : e.ok)

\* the writes the outermost call of a finished print makes, in order, when
\* each is issued exactly once
IssuedOnce(v) ==
    IF is_a_tuple(v.type)
    THEN ElementwiseSteps(Len(v.elems), "get", "separator", 1)
    ELSE ElementwiseSteps(Len(v.elems), "print_element", "print_delimiter", 0)

\* a step of the test's reset, which is no part of the printer
ResetStep == calls > 0 /\ calls' = 0

\* C20: a write failure of the stream is neither retried nor suppressed: on
\* every path the driver never clears or alters the stream's error state and
\* issues every write exactly once, so after a print call in which a write
\* failed the stream is still in its failed state, and nothing was written
\* after the failure
C20_FailureNeitherRetriedNorSuppressed ==
    /\ [][\A s \in Streams :
            (rdstate[s] = "badbit" /\ ~ResetStep) => rdstate'[s] = "badbit"]_vars
    /\ [](Printed =>
            /\ Steps(Outer) = IssuedOnce(cur.v)
            /\ (\E k \in 1..Len(log) : ~log[k].ok) => rdstate[cur.sid] = "badbit"
            /\ (\A k \in 1..Len(log) : log[k].ok) => rdstate[cur.sid] = "goodbit"
            /\ \A j, k \in 1..Len(log) : (j < k /\ ~log[j].ok) => ~log[k].ok
            /\ Output = cur.pre \o Written(Accepted(log)))

C20_Witness ==
    /\ Printed
    /\ cur.v = Cont(Std("multiset"), Ints(<<1, 2, 2>>))
    /\ cur.fmt = "default"
    /\ Len(Accepted(log)) = 4
    /\ Len(log) = 7
    /\ rdstate[cur.sid] = "badbit"
    /\ Output = "{1, 2"

(***************************************************************************)
(* Properties of the extraction trait                                      *)
(***************************************************************************)
\* the class templates the tests find parseable
ParseableTemplates ==
    {"array", "vector", "deque", "forward_list", "list", "set", "multiset",
     "map", "multimap", "unordered_set", "unordered_multiset", "unordered_map",
     "unordered_multimap", "pair", "tuple"}

\* C21: is_parseable_as_container holds for the printable container types
\* that also support insertion (arrays of non-char, array, vector, deque,
\* lists, sets, maps, pair, tuple, and classes derived from them) and is
\* false for char arrays, strings, string views, stack, queue,
\* priority_queue and classes derived from a stack
C21_ParseableTypes ==
    (cur.done /\ cur.entry = "parseable") =>
        /\ cur.ty.tmpl \in ParseableTemplates => cur.parseable
        /\ (cur.ty.tmpl = "derived" /\ cur.ty.base \in ParseableTemplates) => cur.parseable
        /\ (cur.ty.tmpl = "carray" /\ cur.ty.elem \notin CharKinds) => cur.parseable
        /\ (cur.ty.tmpl = "carray" /\ cur.ty.elem \in CharKinds) => ~cur.parseable
        /\ cur.ty.tmpl \in {"basic_string", "basic_string_view"} => ~cur.parseable
        /\ cur.ty.tmpl \in Adapters => ~cur.parseable
        /\ (cur.ty.tmpl = "derived" /\ cur.ty.base \in Adapters) => ~cur.parseable
        /\ cur.parseable => Shape(cur.ty) \in ContainerShapes

C21_Witness ==
    /\ cur.done
    /\ cur.entry = "parseable"
    /\ cur.ty = Derived("vector")
    /\ cur.parseable

(***************************************************************************)
(* Properties of the driver                                                *)
(***************************************************************************)
\* the ToStream overloads a call with a value of type t can use: the tuple
\* overload under is_a_tuple, the pair overload for a std::pair, the generic
\* overload under is_not_a_tuple
ToStream_viable(t) ==
    {p \in {"tuple", "pair", "generic"} :
        \/ p = "tuple" /\ is_a_tuple(t)
        \/ p = "pair" /\ is_a_pair(t)
        \/ p = "generic" /\ is_not_a_tuple(t)}

\* for every type the two tuple traits are complements, the tuple and the
\* generic overload are not both usable, and the overload taken is usable
\* and the only one but for the generic overload of a pair
OneOverloadOfEveryType ==
    \A t \in Types :
       /\ is_a_tuple(t) <=> ~is_not_a_tuple(t)
       /\ ~({"tuple", "generic"} \subseteq ToStream_viable(t))
       /\ ToStream_overload(t) \in ToStream_viable(t)
       /\ ToStream_viable(t) \ {ToStream_overload(t)} \subseteq
             (IF is_a_pair(t) THEN {"generic"} ELSE {})

\* C22: the driver takes exactly one of three paths, chosen once when
\* ToStream is called and never changed while the call runs: a tuple takes
\* the tuple path, a pair the pair path, every other printable type the
\* generic path; is_a_tuple and is_not_a_tuple are exact complements, so the
\* tuple overload and the generic one are never both usable, and for a pair
\* the pair overload, the more specialized one, is the one taken
C22_OnePathPerCall ==
    /\ []OneOverloadOfEveryType
    /\ [](\A k \in 1..Len(stack) :
            /\ stack[k].path \in ToStream_viable(stack[k].v.type)
            /\ stack[k].path = (IF stack[k].v.type.tmpl = "tuple" THEN "tuple"
                                ELSE IF stack[k].v.type.tmpl = "pair" THEN "pair"
                                ELSE "generic")
            /\ stack[k].fn = "tuple_handler" => stack[k].path = "tuple"
            /\ stack[k].pc = "handler" => stack[k].path = "tuple")
    /\ [][\A k \in 1..Len(stack) :
            k <= Len(stack') =>
               /\ stack'[k].path = stack[k].path
               /\ stack'[k].v = stack[k].v]_vars

C22_Witness ==
    /\ cur.active
    /\ cur.v = Tuple(<<IntV(1), Pair(IntV(2), IntV(3)), Tuple(Ints(<<4, 5, 6>>))>>)
    /\ Len(stack) >= 3
    /\ stack[1].path = "tuple"
    /\ Top.path = "pair"
    /\ Top.pc = "suffix"

IsElementWrite(e) == e.op \in {"print_element", "get"}

IsDelimiterWrite(e) == e.op \in {"print_delimiter", "separator"}

\* the writes of one call (those of nested calls left out) are well formed
\* so far: the prefix first and once, no delimiter but after an element, no
\* element but after the prefix or a delimiter, nothing after the suffix
WellFormedSoFar(ev) ==
    /\ ev # <<>> => ev[1].op = "print_prefix"
    /\ \A k \in 2..Len(ev) :
          /\ ev[k].op # "print_prefix"
          /\ ev[k - 1].op # "print_suffix"
          /\ IsDelimiterWrite(ev[k]) => IsElementWrite(ev[k - 1])
          /\ IsElementWrite(ev[k]) =>
                ev[k - 1].op = "print_prefix" \/ IsDelimiterWrite(ev[k - 1])
          /\ ev[k].op = "print_suffix" =>
                ev[k - 1].op = "print_prefix" \/ IsElementWrite(ev[k - 1])

\* C23: on the generic, the pair and the tuple path the writes of one
\* top-level print call are well formed: the prefix exactly once and first,
\* the suffix exactly once and last, and every delimiter between two
\* successive elements only, never before the first element, after the last
\* one or next to another delimiter
C23_WritesWellFormed ==
    /\ cur.entry \in {"operator<<", "ToStream"} => WellFormedSoFar(Outer)
    /\ Printed =>
          /\ Count(Outer, "print_prefix") = 1
          /\ Outer[1].op = "print_prefix"
          /\ Count(Outer, "print_suffix") = 1
          /\ Outer[Len(Outer)].op = "print_suffix"
          /\ \A k \in 1..Len(Outer) :
                IsDelimiterWrite(Outer[k]) =>
                   /\ 1 < k /\ k < Len(Outer)
                   /\ IsElementWrite(Outer[k - 1])
                   /\ IsElementWrite(Outer[k + 1])
          /\ Cardinality({k \in 1..Len(Outer) : IsElementWrite(Outer[k])})
                = Len(cur.v.elems)
          /\ Cardinality({k \in 1..Len(Outer) : IsDelimiterWrite(Outer[k])})
                = (IF cur.v.elems = <<>> THEN 0 ELSE Len(cur.v.elems) - 1)
          /\ Output = cur.pre \o Written(log)

C23_Witness ==
    /\ Printed
    /\ cur.v = Tuple(<<IntV(1), Pair(IntV(2), IntV(3)), Tuple(Ints(<<4, 5, 6>>))>>)
    /\ Len(Outer) = 7
    /\ Len(log) > Len(Outer)
    /\ Output = "<1, (2, 3), <4, 5, 6>>"

\* a character array, a string or a string view
IsText(v) == IsCharArray(v) \/ IsString(v)

\* C24: no print entry point, neither operator<< nor a direct call of
\* ToStream, decomposes a string or a character array element by element
\* into a bracketed, separator-joined list of characters: no prefix, element
\* or delimiter write is made for it, and what is written is its text
C24_TextNeverDecomposed ==
    (cur.entry \in {"operator<<", "ToStream", "std<<"} /\ IsText(cur.v)) =>
        /\ stack = <<>>
        /\ Count(log, "print_prefix") = 0
        /\ Count(log, "print_element") = 0
        /\ Count(log, "print_delimiter") = 0
        /\ cur.done => Output = cur.pre \o cur.v.s

(***************************************************************************)
(* Print calls run to their end: a call that has started takes its next    *)
(* step, whatever the state of the stream                                  *)
(***************************************************************************)
\* values of every path, empty and nested down to three levels
DeepValues ==
    { Cont(Std("vector"), <<>>),
      Tuple(<<>>),
      Pair(IntV(10), Cont(Std("vector"), <<Pair(IntV(1), IntV(2))>>)),
      Tuple(<<IntV(1), Pair(IntV(2), IntV(3)), Tuple(Ints(<<4, 5, 6>>))>>) }

\* the next step of the call that is running
Proceed ==
    \/ PrintPrefix
    \/ PrintElement
    \/ PrintDelimiter
    \/ PrintSuffix
    \/ HandlerCall
    \/ HandlerEmpty
    \/ HandlerSingle
    \/ HandlerRecurse
    \/ HandlerSeparator
    \/ HandlerGet
    \/ HandlerReturn

NextTerm ==
    \/ \E sid \in Streams : SinkFails(sid)
    \/ \E sid \in Streams, v \in DeepValues : OperatorInsert(sid, v)
    \/ \E sid \in Streams, v \in DeepValues : ToStream(sid, v, "custom")
    \/ Reset
    \/ Proceed

\* a function that has been called runs on: the statement is sequential code
SpecTerm == Init /\ [][NextTerm]_vars /\ WF_vars(Proceed)

\* the elements a print of the value visits, at every depth
RECURSIVE Visits(_, _)
RECURSIVE VisitsOf(_, _)
Visits(v, sid) == Len(v.elems) + VisitsOf(v.elems, sid)

VisitsOf(es, sid) ==
    IF es = <<>> THEN 0
    ELSE (IF container_inserter(es[1].type, sid) THEN Visits(es[1], sid) ELSE 0)
            + VisitsOf(Tail(es), sid)

\* the values a print of the value opens, itself included
RECURSIVE Opens(_, _)
RECURSIVE OpensOf(_, _)
Opens(v, sid) == 1 + OpensOf(v.elems, sid)

OpensOf(es, sid) ==
    IF es = <<>> THEN 0
    ELSE (IF container_inserter(es[1].type, sid) THEN Opens(es[1], sid) ELSE 0)
            + OpensOf(Tail(es), sid)

\* the depth of a value: 1 for a value without printable elements
RECURSIVE Depth(_, _)
RECURSIVE DepthOf(_, _)
Depth(v, sid) == 1 + DepthOf(v.elems, sid)

DepthOf(es, sid) ==
    IF es = <<>> THEN 0
    ELSE LET d == IF container_inserter(es[1].type, sid) THEN Depth(es[1], sid) ELSE 0
             r == DepthOf(Tail(es), sid)
         IN IF d > r THEN d ELSE r

ElementWrites(ev) == Cardinality({k \in 1..Len(ev) : IsElementWrite(ev[k])})

\* C25: every print call on a finite value terminates, nested values
\* included, after visiting each element exactly once; the number of writes
\* is bounded by the size of the value; no step waits or loops on the
\* stream: a call goes on to its end on a failed stream as well
C25_PrintTerminates ==
    /\ (cur.active ~> Printed)
    /\ [](cur.entry \in {"operator<<", "ToStream"} =>
            /\ ElementWrites(log) <= Visits(cur.v, cur.sid)
            /\ Len(log) <= 2 * Opens(cur.v, cur.sid) + 2 * Visits(cur.v, cur.sid)
            /\ Len(stack) <= 2 * Depth(cur.v, cur.sid) + Len(cur.v.elems)
            /\ Printed =>
                  /\ ElementWrites(log) = Visits(cur.v, cur.sid)
                  /\ Count(log, "print_prefix") = Opens(cur.v, cur.sid)
                  /\ Count(log, "print_suffix") = Opens(cur.v, cur.sid)
                  /\ stack = <<>>)
    /\ [][cur.active => (Len(log') > Len(log) \/ Len(stack') # Len(stack)
                           \/ sink' # sink)]_vars

C25_Witness ==
    /\ Printed
    /\ cur.v = Pair(IntV(10), Cont(Std("vector"), <<Pair(IntV(1), IntV(2))>>))
    /\ rdstate[cur.sid] = "badbit"
    /\ ElementWrites(log) = 5
    /\ Count(log, "print_prefix") = 3

\* what default_formatter<ContainerType, StreamType> writes for a value by
\* print_prefix, print_element of the first element, print_delimiter and
\* print_element of each further one, print_suffix
ByDefaultFormatter(v, sid) ==
    print_prefix("default", v.type, sid)
       \o PlainElements(v.elems, print_delimiter("default", v.type, sid), sid)
       \o print_suffix("default", v.type, sid)

C27_FormatterGovernsOutermostOnly ==
    /\ \A k \in 1..Len(stack) : stack[k].lvl > 1 => stack[k].fmt = "default"
    /\ (Printed /\ cur.entry = "ToStream" /\ cur.fmt = "custom"
          /\ ~is_a_tuple(cur.v.type)) =>
          /\ Outer[1].text = "$$ "
          /\ Outer[Len(Outer)].text = " $$"
          /\ \A k \in 1..Len(log) :
                /\ (log[k].lvl = 1 /\ log[k].op = "print_delimiter") => log[k].text = " | "
                /\ (log[k].lvl > 1 /\ log[k].op = "print_prefix")
                      => log[k].text \in {"[", "{", "(", "<"}
                /\ (log[k].lvl > 1 /\ IsDelimiterWrite(log[k])) => log[k].text = ", "
                /\ (log[k].lvl > 1 /\ log[k].op = "print_suffix")
                      => log[k].text \in {"]", "}", ")", ">"}
          /\ Output = cur.pre \o "$$ " \o PlainElements(cur.v.elems, " | ", cur.sid) \o " $$"

C27_Witness ==
    /\ Printed
    /\ cur.entry = "ToStream"
    /\ cur.fmt = "custom"
    /\ cur.v = Pair(IntV(10), Cont(Std("vector"), <<Pair(IntV(1), IntV(2))>>))
    /\ Output = "$$ 10 | [(1, 2)] $$"

(***************************************************************************)
(* Several prints on a stream without a reset between them: chained,       *)
(* stream << a << b, and in statements of their own                        *)
(***************************************************************************)
\* prints in a row without a reset
MaxChain == 3

\* an operator<< that returned another stream than the one it was given
returned_other_stream(sid) == IF sid = "cout" THEN "wcout" ELSE "cout"

\* the stream operator<< returns: `return stream;`, its own parameter
returned(sid) == sid

\* the values printed in a row
ChainValues ==
    { Cont(Std("vector"), <<>>),
      Cont(Std("set"), Ints(<<1, 2, 3, 4>>)),
      Pair(IntV(1), IntV(2)),
      Tuple(Ints(<<1, 2>>)) }

\* a further `<< v` of a chained expression: applied to what the operator<<
\* before it returned
Chained(v) ==
    /\ ~cur.active
    /\ cur.done
    /\ cur.entry = "operator<<"
    /\ Len(cur.seen) < MaxChain
    /\ container_inserter(v.type, returned(cur.sid))
    /\ insertable(v, returned(cur.sid))
    /\ cur' = Begin(returned(cur.sid), "operator<<", v, "default", TRUE)
    /\ stack' = <<ToStreamFrame(v, "default", 1)>>
    /\ log' = <<>>
    /\ UNCHANGED <<streams, rdstate, sink, repr, calls>>

\* a further statement `stream << v` on either stream
Following(sid, v) ==
    /\ ~cur.active
    /\ cur.done
    /\ Len(cur.seen) < MaxChain
    /\ container_inserter(v.type, sid)
    /\ insertable(v, sid)
    /\ cur' = Begin(sid, "operator<<", v, "default", TRUE)
    /\ stack' = <<ToStreamFrame(v, "default", 1)>>
    /\ log' = <<>>
    /\ calls' = calls + 1
    /\ UNCHANGED <<streams, rdstate, sink, repr>>

NextChain ==
    \/ \E sid \in Streams, v \in ChainValues : OperatorInsert(sid, v)
    \/ \E v \in ChainValues : Chained(v)
    \/ \E sid \in Streams, v \in ChainValues : Following(sid, v)
    \/ Reset
    \/ PrintPrefix
    \/ PrintElement
    \/ PrintDelimiter
    \/ PrintSuffix
    \/ HandlerCall
    \/ HandlerRecurse
    \/ HandlerSeparator
    \/ HandlerSingle
    \/ HandlerGet
    \/ HandlerReturn

SpecChain == Init /\ [][NextChain]_vars

\* the outputs the values printed on stream s so far produce when each is
\* printed alone, one after the other
RECURSIVE OutputsInOrder(_, _)
OutputsInOrder(seen, s) ==
    IF seen = <<>> THEN ""
    ELSE (IF seen[1].sid = s THEN Plain(seen[1].v, s) ELSE "")
            \o OutputsInOrder(Tail(seen), s)

\* a step that starts a further print of a chained expression
ChainedStep ==
    /\ cur.done
    /\ cur'.active
    /\ calls' = calls

\* C28: the container operator<< returns the very stream it was given and
\* keeps no state between calls: after any sequence of print calls, chained
\* or in statements of their own, the content of a stream is the
\* concatenation, in call order, of the outputs each value printed on it
\* produces when printed alone, with nothing written between them
C28_OutputsConcatenate ==
    /\ [][ChainedStep => cur'.sid = cur.sid]_vars
    /\ [][cur'.active /\ ~cur.active =>
            /\ streams' = streams
            /\ cur'.pre = streams[cur'.sid]
            /\ log' = <<>>]_vars
    /\ [](stack = <<>> =>
            \A s \in Streams : streams[s] = OutputsInOrder(cur.seen, s))
    /\ [](Printed => Output = cur.pre \o Plain(cur.v, cur.sid))
    /\ [](cur.active =>
            \A s \in Streams \ {cur.sid} : streams[s] = OutputsInOrder(cur.seen, s))

C28_Witness ==
    /\ Printed
    /\ calls = 1
    /\ Len(cur.seen) = 3
    /\ cur.sid = "cout"
    /\ cur.v = Tuple(Ints(<<1, 2>>))
    /\ cur.seen[1].v = Cont(Std("set"), Ints(<<1, 2, 3, 4>>))
    /\ cur.seen[2].v = Pair(IntV(1), IntV(2))
    /\ Output = "{1, 2, 3, 4}(1, 2)<1, 2>"

====
